---- MODULE Spec2Model ----
(***************************************************************************)
(* Progression and state-persistence engine of the RealLife quest tracker  *)
(* (src/App.tsx): quest state machine, persistence coordinator, durable    *)
(* store and daily reset scheduler of the component                        *)
(* DetailedQuestsAppContent.                                               *)
(*                                                                         *)
(* Time is the Europe/Kiev wall clock in whole hours since day 0.  A date  *)
(* string "YYYY-MM-DD" is modelled by its day number, the empty string by  *)
(* NoDate.  A React event handler together with the render and the effects *)
(* it triggers is one action; the 100 ms bonus timer of toggleQuestStep    *)
(* and the two commits of a mount are separate steps.                      *)
(***************************************************************************)
EXTENDS Integers, FiniteSets, Sequences, TLC

\* ------------------------------------------------------------------ bounds
MaxDay == 2          \* the clock runs over the days 1..MaxDay
MaxRestarts == 2     \* process restarts explored
MaxResets == 1       \* uses of "reset all quests" explored
NumSteps == 2        \* steps per main quest (20 in the shipped tables)

\* ------------------------------------------------------- program constants
CUTOVER_HOUR == 4
stepXP == 30
DefaultBonus == 1000

NoDate == -1                       \* the empty lastResetDate ''
SampleHours == {1, 3, 4}           \* hours of a day at which the clock is observed
Instants == {d * 24 + h : d \in 1..MaxDay, h \in SampleHours}
HostOffsets == {0, 2}              \* UTC offset (hours) of the host's local zone

MainQuestIds == {"career-1", "career-8"}
UnknownQuest == "no-such-quest"
QuestXP == [q \in MainQuestIds |-> 1000]
InitialProgress == [q \in MainQuestIds |-> IF q = "career-8" THEN 5 ELSE 0]
StepIds == 1..NumSteps
StepArgs == 0..NumSteps            \* step ids handed to toggleQuestStep; 0 names no step

DailyIds == {1, 2}
DailyArgs == 0..2                  \* ids handed to handleQuestComplete; 0 names no quest
DailyXP == [d \in DailyIds |-> IF d = 1 THEN 100 ELSE 80]

Characters == {"smile", "devil"}

VARIABLES
    userProfile,        \* [avatar, totalXP]
    selectedCharacter,
    dailyQuests,        \* id -> [xp, completed]
    mainQuests,         \* id -> [xp, progress, steps]
    completedQuests,    \* the ledger of quests whose bonus was scheduled
    lastResetDate,
    notifications,      \* the settings flag "push notifications"
    pendingBonus,       \* quest id -> number of armed 100 ms bonus timers
    store,              \* [local, sess, backup]: slots of key userProgressData
    localUp,            \* localStorage accepts calls (it throws otherwise)
    sessUp,             \* sessionStorage accepts calls (it throws otherwise)
    now,                \* Kyiv wall clock, hours
    hostOffset,         \* the host's local UTC offset
    pc,                 \* "mounting" (between the two commits of a mount) or "running"
    depsChanged,        \* while mounting: the autosave effect is due at the next commit
    restarts, resets,   \* counters that bound the exploration
    \* history variables
    bonusAwards,        \* quest id -> bonuses credited for the present completion
    stalePending,       \* quest id -> armed timers that stem from before a reset
    completedHere,      \* quest id -> the last open step was toggled in this process, no reset since
    schedResets,        \* number of resets performed by the interval check
    cycleAwards,        \* daily id -> times its xp was added since the last 04:00 boundary
    doneEarlier,        \* daily id -> completed, and that on an earlier Kyiv date than today
    overdue,            \* a check ran at an hour >= 4 and left such a quest completed
    got,                \* the last observed Storage.getItem call, if any:
                        \* {[at (the store read), localOK, sessOK, data (the result)]}
    shown,              \* the level display of the last observed render, if any:
                        \* {[xp, level, progress, xpIn, xpNeeded, xpToNext, reward]}
    relaunch            \* after a start past a cutover boundary over a stored lastResetDate
                        \* of an earlier date key, while the date key of the start lasts:
                        \* [stale, checked (a check ran at hour >= 4), resets (daily resets)]

live == <<userProfile, selectedCharacter, dailyQuests, mainQuests, completedQuests,
          lastResetDate, notifications>>
hist == <<bonusAwards, stalePending, completedHere, schedResets, cycleAwards>>
media == <<localUp, sessUp, got, shown>>
vars == <<userProfile, selectedCharacter, dailyQuests, mainQuests, completedQuests,
          lastResetDate, notifications, pendingBonus, store, now, hostOffset, pc, depsChanged,
          restarts, resets, bonusAwards, stalePending, completedHere, schedResets,
          cycleAwards,
          doneEarlier, overdue, relaunch, localUp, sessUp, got, shown>>

\* ------------------------------------------------------------ initial data
DefaultProfile == [avatar |-> "smile", totalXP |-> 0]

DefaultMainQuests ==
    [q \in MainQuestIds |->
        [xp |-> QuestXP[q], progress |-> InitialProgress[q],
         steps |-> [s \in StepIds |-> FALSE]]]

DefaultDailyQuests == [d \in DailyIds |-> [xp |-> DailyXP[d], completed |-> FALSE]]

DefaultState ==
    [userProfile |-> DefaultProfile, selectedCharacter |-> "smile",
     dailyQuests |-> DefaultDailyQuests, mainQuests |-> DefaultMainQuests,
     completedQuests |-> {}, lastResetDate |-> NoDate, notifications |-> TRUE]

LiveState ==
    [userProfile |-> userProfile, selectedCharacter |-> selectedCharacter,
     dailyQuests |-> dailyQuests, mainQuests |-> mainQuests,
     completedQuests |-> completedQuests, lastResetDate |-> lastResetDate,
     notifications |-> notifications]

\* ------------------------------------------------------------------- clock
getHours(t) == t % 24

\* toISOString() renders the Kyiv wall clock, read as host-local time, in UTC
getCurrentDateString(t, off) == (t - off) \div 24

shouldResetDailyQuests_late(last, t, off) ==
    IF last # getCurrentDateString(t, off) /\ getHours(t) > CUTOVER_HOUR
    THEN TRUE ELSE FALSE

shouldResetDailyQuests(last, t, off) ==
    IF last # getCurrentDateString(t, off) /\ getHours(t) >= CUTOVER_HOUR
    THEN TRUE ELSE FALSE

resetDailyQuests_noDate(st, t, off) ==
    [st EXCEPT !.dailyQuests = [d \in DOMAIN st.dailyQuests |->
                                   [st.dailyQuests[d] EXCEPT !.completed = FALSE]]]

resetDailyQuests_retract(st, t, off) ==
    [st EXCEPT !.dailyQuests = [d \in DOMAIN st.dailyQuests |->
                                   [st.dailyQuests[d] EXCEPT !.completed = FALSE]],
               !.lastResetDate = getCurrentDateString(t, off),
               !.userProfile = [st.userProfile EXCEPT !.totalXP = 0]]

resetDailyQuests(st, t, off) ==
    [st EXCEPT !.dailyQuests = [d \in DOMAIN st.dailyQuests |->
                                   [st.dailyQuests[d] EXCEPT !.completed = FALSE]],
               !.lastResetDate = getCurrentDateString(t, off)]

\* ----------------------------------------------------------- durable store
\* A slot is {} when the key is absent and {v} when it holds v.
EmptyStore == [local |-> {}, sess |-> {}, backup |-> {}]

\* localOK / sessOK: the medium accepts the call (it throws otherwise)
Storage_setItem(st, value, localOK, sessOK) ==
    IF localOK /\ sessOK
    THEN [st EXCEPT !.local = {value}, !.backup = {value}]
    ELSE LET afterTry == IF localOK THEN [st EXCEPT !.local = {value}] ELSE st
         IN  IF sessOK THEN [afterTry EXCEPT !.sess = {value}] ELSE afterTry

Storage_getItem_backupFirst(st, localOK, sessOK) ==
    IF ~localOK THEN {}
    ELSE IF st.local # {} THEN st.local
    ELSE IF ~sessOK THEN {}
    ELSE IF st.backup # {} THEN st.backup
    ELSE IF st.sess # {} THEN st.sess
    ELSE {}

Storage_getItem(st, localOK, sessOK) ==
    IF ~localOK THEN {}
    ELSE IF st.local # {} THEN st.local
    ELSE IF ~sessOK THEN {}
    ELSE IF st.sess # {} THEN st.sess
    ELSE IF st.backup # {} THEN st.backup
    ELSE {}

\* -------------------------------------------------- persistence coordinator
RECURSIVE SetToSeq(_)
\* Array.from(set)
SetToSeq(S) ==
    IF S = {} THEN <<>>
    ELSE LET x == CHOOSE y \in S : TRUE IN <<x>> \o SetToSeq(S \ {x})

SeqToSet_head(a) == IF a = <<>> THEN {} ELSE {a[1]}

\* new Set(array)
SeqToSet(a) == {a[i] : i \in DOMAIN a}

\* A JavaScript value as far as the persistence code inspects it: the type
\* tag and the content. A date string carries its date key.
JObject(fields) == [t |-> "object", v |-> fields]
JArray(items) == [t |-> "array", v |-> items]
JString(s) == [t |-> "string", v |-> s]
JDate(key) == [t |-> "date string", v |-> key]
JNumber(n) == [t |-> "number", v |-> n]
JBoolean(b) == [t |-> "boolean", v |-> b]
JNull == [t |-> "null", v |-> 0]

\* typeof value
typeof(j) ==
    IF j.t \in {"object", "array", "null"} THEN "object"
    ELSE IF j.t = "date string" THEN "string"
    ELSE j.t

\* !!value
Truthy(j) ==
    CASE j.t = "string" -> j.v # ""
      [] j.t = "date string" -> j.v # NoDate
      [] j.t = "number" -> j.v # 0
      [] j.t = "boolean" -> j.v
      [] j.t = "null" -> FALSE
      [] OTHER -> TRUE

\* value[field] is defined / is truthy
HasField(j, field) == j.t = "object" /\ field \in DOMAIN j.v
TruthyField(j, field) == HasField(j, field) /\ Truthy(j.v[field])

\* the userData object of saveUserData
UserData(st) ==
    JObject([userProfile |-> JObject([totalXP |-> JNumber(st.userProfile.totalXP),
                                      avatar |-> JString(st.userProfile.avatar)]),
             dailyQuests |-> JArray(st.dailyQuests),
             mainQuests |-> JArray(st.mainQuests),
             completedQuests |-> JArray(SetToSeq(st.completedQuests)),
             lastResetDate |-> JDate(st.lastResetDate),
             selectedCharacter |-> JString(st.selectedCharacter),
             notifications |-> JBoolean(st.notifications),
             version |-> JString("1.0.1")])

\* A stored text is the JSON text of a value or a text that is no JSON.
JSON_stringify(j) == [kind |-> "json", root |-> j]
NotJson == [kind |-> "garbage", root |-> JNull]

\* JSON.parse(text): {value}, or {} when it throws
JSON_parse(text) == IF text.kind = "json" THEN {text.root} ELSE {}

requiredFields == {"userProfile", "dailyQuests", "mainQuests"}

validateUserData(data) ==
    /\ Truthy(data) /\ typeof(data) = "object"
    /\ \A field \in requiredFields : TruthyField(data, field)
    /\ HasField(data.v.userProfile, "totalXP")
    /\ typeof(data.v.userProfile.v.totalXP) = "number"

saveUserData(st, storage) ==
    IF ~validateUserData(UserData(st)) THEN storage
    ELSE Storage_setItem(storage, JSON_stringify(UserData(st)), localUp, sessUp)

AcceptedData_noMain(storage) ==
    LET savedData == Storage_getItem(storage, localUp, sessUp) IN
    IF savedData = {} THEN {}
    ELSE {userData \in JSON_parse(CHOOSE d \in savedData : TRUE) :
             /\ Truthy(userData) /\ typeof(userData) = "object"
             /\ \A field \in requiredFields \ {"mainQuests"} : TruthyField(userData, field)
             /\ HasField(userData.v.userProfile, "totalXP")
             /\ typeof(userData.v.userProfile.v.totalXP) = "number"}

\* what loadUserData gets to apply: {userData} when a text is found, parses
\* and passes the validation, {} otherwise
AcceptedData(storage) ==
    LET savedData == Storage_getItem(storage, localUp, sessUp) IN
    IF savedData = {} THEN {}
    ELSE {userData \in JSON_parse(CHOOSE d \in savedData : TRUE) :
             validateUserData(userData)}

\* the state the setters of loadUserData leave, starting from the state cur;
\* the profile fields are read as saveUserData writes them, a collection field
\* that holds no array is not taken over here (see loadBreaks)
loadUserData(cur, storage) ==
    IF AcceptedData(storage) = {} THEN cur
    ELSE LET userData == CHOOSE d \in AcceptedData(storage) : TRUE
             profile == userData.v.userProfile.v
         IN  [userProfile |-> [totalXP |-> profile.totalXP.v,
                               avatar |-> IF "avatar" \in DOMAIN profile
                                          THEN profile.avatar.v ELSE ""],
              selectedCharacter |-> IF TruthyField(userData.v.userProfile, "avatar")
                                    THEN profile.avatar.v
                                    ELSE cur.selectedCharacter,
              dailyQuests |-> IF /\ TruthyField(userData, "dailyQuests")
                                 /\ userData.v.dailyQuests.t = "array"
                              THEN userData.v.dailyQuests.v ELSE cur.dailyQuests,
              mainQuests |-> IF /\ TruthyField(userData, "mainQuests")
                                /\ userData.v.mainQuests.t = "array"
                             THEN userData.v.mainQuests.v ELSE cur.mainQuests,
              completedQuests |-> IF /\ TruthyField(userData, "completedQuests")
                                     /\ userData.v.completedQuests.t = "array"
                                  THEN SeqToSet(userData.v.completedQuests.v)
                                  ELSE cur.completedQuests,
              lastResetDate |-> IF TruthyField(userData, "lastResetDate")
                                THEN userData.v.lastResetDate.v
                                ELSE cur.lastResetDate,
              notifications |-> IF HasField(userData, "notifications")
                                THEN userData.v.notifications.v
                                ELSE cur.notifications]

\* setDailyQuests / setMainQuests received a truthy value that is no array:
\* the next render calls .map / .filter on it and throws
loadBreaks(storage) ==
    \E userData \in AcceptedData(storage) :
        \/ TruthyField(userData, "dailyQuests") /\ userData.v.dailyQuests.t # "array"
        \/ TruthyField(userData, "mainQuests") /\ userData.v.mainQuests.t # "array"

\* value with field set to val / without field
With(j, field, val) == JObject([f \in DOMAIN j.v |-> IF f = field THEN val ELSE j.v[f]])
Without(j, field) == JObject([f \in DOMAIN j.v \ {field} |-> j.v[f]])

\* a snapshot of another profile: the first main quest completed, another
\* character picked, the notifications switched off
ImportedData ==
    UserData([DefaultState EXCEPT
        !.userProfile = [avatar |-> "devil",
                         totalXP |-> NumSteps * stepXP + QuestXP["career-1"]],
        !.selectedCharacter = "devil",
        !.mainQuests["career-1"] = [@ EXCEPT !.progress = 100,
                                             !.steps = [s \in StepIds |-> TRUE]],
        !.completedQuests = {"career-1"},
        !.notifications = FALSE])

\* a snapshot that holds the required keys only, its profile without avatar
SparseData ==
    JObject([userProfile |-> JObject([totalXP |-> JNumber(stepXP)]),
             dailyQuests |-> JArray(DefaultDailyQuests),
             mainQuests |-> JArray(DefaultMainQuests)])

\* texts that pass the validation and are not written by saveUserData: the
\* sparse snapshot, and one whose selectedCharacter is not the avatar
ForeignTexts ==
    {JSON_stringify(SparseData),
     JSON_stringify(With(ImportedData, "selectedCharacter", JString("smile")))}

\* texts no saveUserData call writes: no JSON, null, a missing key, a field
\* of the wrong type, a falsy field
CorruptTexts ==
    {NotJson,
     JSON_stringify(JNull),
     JSON_stringify(Without(ImportedData, "mainQuests")),
     JSON_stringify(With(ImportedData, "dailyQuests", JString("x"))),
     JSON_stringify(With(ImportedData, "mainQuests", JObject([x |-> JNull]))),
     JSON_stringify(With(ImportedData, "dailyQuests", JNull)),
     JSON_stringify(With(ImportedData, "userProfile",
                         JObject([totalXP |-> JString("x"), avatar |-> JString("x")])))}

ExternalTexts == CorruptTexts \cup {JSON_stringify(ImportedData)}

\* texts that pass the validation
ValidTexts == ForeignTexts \cup {JSON_stringify(ImportedData)}

\* what the stored snapshot says, when there is one written by saveUserData
HasStored == store.local # {}
StoredData ==
    LET u == (CHOOSE d \in store.local : TRUE).root.v
    IN  [userProfile |-> [totalXP |-> u.userProfile.v.totalXP.v,
                          avatar |-> u.userProfile.v.avatar.v],
         dailyQuests |-> u.dailyQuests.v,
         mainQuests |-> u.mainQuests.v,
         completedQuests |-> u.completedQuests.v,
         lastResetDate |-> u.lastResetDate.v,
         selectedCharacter |-> u.selectedCharacter.v,
         version |-> u.version.v]

\* --------------------------------------------------------- quest operations
MathRoundPercent_floor(c, n) == (100 * c) \div n

\* Math.round(100 * c / n)
MathRoundPercent(c, n) == (200 * c + n) \div (2 * n)

CompletedCount(steps) == Cardinality({s \in DOMAIN steps : steps[s]})

getQuestProgress(quest) ==
    MathRoundPercent(CompletedCount(quest.steps), Cardinality(DOMAIN quest.steps))

\* quest.steps.map(step => step.id === stepId && !step.completed ? {...step, completed: true} : step)
UpdatedSteps(quest, stepId) ==
    [s \in DOMAIN quest.steps |->
        IF s = stepId /\ ~quest.steps[s] THEN TRUE ELSE quest.steps[s]]

\* const step = quest.steps.find(...); if (step && !step.completed)
StepAwardDue(quest, stepId) ==
    stepId \in DOMAIN quest.steps /\ ~quest.steps[stepId]

AllStepsDone_anyStep(quest, updatedSteps) ==
    CompletedCount(updatedSteps) >= 1

\* newCompletedSteps === quest.steps.length
AllStepsDone(quest, updatedSteps) ==
    CompletedCount(updatedSteps) = Cardinality(DOMAIN quest.steps)

\* ... && !completedQuests.has(questId)
BonusDue(quest, updatedSteps, questId, ledger) ==
    AllStepsDone(quest, updatedSteps) /\ questId \notin ledger

\* quest.xp || 1000
questBonus(quest) == IF quest.xp # 0 THEN quest.xp ELSE DefaultBonus

\* the autosave effect after a commit that changed one of its dependencies
Autosave == store' = saveUserData(LiveState', store)

Running == pc = "running"

\* assigns the state hooks from a state record
SetLive(st) ==
    /\ userProfile' = st.userProfile
    /\ selectedCharacter' = st.selectedCharacter
    /\ dailyQuests' = st.dailyQuests
    /\ mainQuests' = st.mainQuests
    /\ completedQuests' = st.completedQuests
    /\ lastResetDate' = st.lastResetDate
    /\ notifications' = st.notifications

\* ----------------------------------------------------- history of the days
NoRelaunch == [stale |-> FALSE, checked |-> FALSE, resets |-> 0]
NoneEarlier == [d \in DailyIds |-> FALSE]
NoAwards == [d \in DailyIds |-> 0]

\* a cutover boundary lies after the instant from and not after the instant to
CutoverCrossed(from, to) == \E c \in (from + 1)..to : getHours(c) = CUTOVER_HOUR

\* the awards of the reset cycle of the instant to, the set awarded being
\* credited at that instant
TrackAwards(from, to, awarded) ==
    cycleAwards' =
        [d \in DailyIds |->
            (IF CutoverCrossed(from, to) THEN 0 ELSE cycleAwards[d])
            + (IF d \in awarded THEN 1 ELSE 0)]

\* the calendar date of the Kyiv wall clock
KyivDate(t) == t \div 24

\* A quest stays "completed earlier" while completed; one completed before the
\* Kyiv date changed becomes so; one completed in this step is of today.
\* check: the step evaluates shouldResetDailyQuests.
TrackDaily(check) ==
    /\ doneEarlier' =
          [d \in DailyIds |->
              /\ dailyQuests'[d].completed
              /\ dailyQuests[d].completed
              /\ (doneEarlier[d] \/ KyivDate(now') > KyivDate(now))]
    /\ overdue' =
          /\ \E d \in DailyIds : doneEarlier'[d]
          /\ (overdue \/ (check /\ getHours(now') >= CUTOVER_HOUR))

\* a step of the running process that evaluates shouldResetDailyQuests when
\* check holds and resets the daily quests when reset holds
TrackCheck(check, reset) ==
    relaunch' =
        IF ~relaunch.stale THEN relaunch
        ELSE [relaunch EXCEPT
                !.checked = @ \/ (check /\ getHours(now) >= CUTOVER_HOUR),
                !.resets = IF reset THEN @ + 1 ELSE @]

\* ------------------------------------------------------------------ levels
levelTable ==
    <<500, 540, 583, 630, 680, 734, 793, 856, 924, 998,
      1079, 1166, 1259, 1359, 1468, 1585, 1712, 1849, 1997, 2157,
      2330, 2517, 2718, 2936, 3171, 3424, 3698, 3994, 4314, 4659,
      5032, 5434, 5869, 6338, 6845, 7393, 7984, 8623, 9313, 10058,
      10862, 11731, 12670, 13683, 14778, 15960, 17237, 18616, 20105, 21713,
      23450, 25326, 27352, 29540, 31903, 34455, 37211, 40188, 43403, 46875,
      50625, 54675, 59049, 63773, 68875, 74385, 80336, 86763, 93704, 101200,
      109296, 118040, 127483, 137682, 148696, 160592, 173439, 187314, 202299, 218483,
      235962, 254839, 275226, 297244, 321024, 346706, 374442, 404398, 436750, 471690,
      509425, 550180, 594194, 641730, 693068, 748514, 808395, 872667, 942480, 1017878>>

\* the exit test of the loop of getLevel
LevelReached_inclusive(xp, totalXpNeeded) == xp <= totalXpNeeded

LevelReached(xp, totalXpNeeded) == xp < totalXpNeeded

RECURSIVE getLevelFrom(_, _, _)
\* the loop of getLevel before its turn i (counted from 1), with the sum so far
getLevelFrom(xp, i, totalXpNeeded) ==
    IF i > Len(levelTable) THEN Len(levelTable)
    ELSE IF LevelReached(xp, totalXpNeeded + levelTable[i]) THEN i
    ELSE getLevelFrom(xp, i + 1, totalXpNeeded + levelTable[i])

getLevel(xp) == getLevelFrom(xp, 1, 0)

RECURSIVE SumBelow(_)
SumBelow(n) == IF n = 0 THEN 0 ELSE SumBelow(n - 1) + levelTable[n]

totalXpForCurrentLevel_through(currentLevel) == SumBelow(currentLevel)

\* the loop of getLevelProgress: the costs of the levels below currentLevel
totalXpForCurrentLevel(currentLevel) == SumBelow(currentLevel - 1)

RECURSIVE GCD(_, _)
GCD(a, b) == IF b = 0 THEN a ELSE GCD(b, a % b)

\* the number num / den (den > 0) in lowest terms; the rounding of the
\* floating-point division is left out
Ratio(num, den) ==
    LET g == GCD(IF num < 0 THEN -num ELSE num, den)
    IN  [num |-> num \div g, den |-> den \div g]

\* Math.min(100, r)
MathMin100(r) == IF r.num > 100 * r.den THEN Ratio(100, 1) ELSE r

getLevelProgress(xp) ==
    LET currentLevel == getLevel(xp) IN
    IF currentLevel >= 100 THEN Ratio(100, 1)
    ELSE LET xpInCurrentLevel == xp - totalXpForCurrentLevel(currentLevel)
             xpNeededForCurrentLevel == levelTable[currentLevel]
         IN  MathMin100(Ratio(xpInCurrentLevel * 100, xpNeededForCurrentLevel))

getXPInCurrentLevel(xp) == xp - totalXpForCurrentLevel(getLevel(xp))

getXPNeededForCurrentLevel(xp) ==
    IF getLevel(xp) >= 100 THEN levelTable[100] ELSE levelTable[getLevel(xp)]

\* levelTable[currentLevel] - xp, the table being indexed from 0 in the source
getXPToNextLevel(xp) ==
    IF getLevel(xp) >= 100 THEN 0 ELSE levelTable[getLevel(xp) + 1] - xp

rewardLevels_tens == (1..10) \cup {20, 30, 40, 50, 60, 70, 80, 90, 100}

\* the keys of the rewards table
rewardLevels == (1..10) \cup {15, 20, 25, 30, 40, 50, 60, 70, 80, 90, 100}

RECURSIVE rewardLevelFrom(_)
\* the loop of getLevelRewards at i
rewardLevelFrom(i) ==
    IF i < 1 THEN 1
    ELSE IF i \in rewardLevels THEN i
    ELSE rewardLevelFrom(i - 1)

\* the key of the entry that getLevelRewards returns
getLevelRewards(level) == rewardLevelFrom(level)

\* experience totals around every level boundary, the middle of level 1 and
\* totals past the table
XPInputs ==
    {0, levelTable[1] \div 2}
        \cup {SumBelow(i) - 1 : i \in 1..Len(levelTable)}
        \cup {SumBelow(i) : i \in 1..Len(levelTable)}
        \cup {SumBelow(Len(levelTable)) + 1}

\* ------------------------------------------------------------------ mount
\* First commit of a mount at time t over the storage s: the load effect queues
\* the stored values, the autosave effect writes the state of the first render,
\* the reset effect runs with the lastResetDate '' of the first render.
MountState(s, t, off) ==
    LET loaded == loadUserData(DefaultState, s)
        inited == [loaded EXCEPT !.lastResetDate = getCurrentDateString(t, off)]
    IN  IF shouldResetDailyQuests(DefaultState.lastResetDate, t, off)
        THEN resetDailyQuests(inited, t, off)
        ELSE inited

MountStore(s) == saveUserData(DefaultState, s)

\* a dependency of the autosave effect differs from that of the first render
MountDepsChanged(s, t, off) ==
    \/ AcceptedData(s) # {}
    \/ shouldResetDailyQuests(DefaultState.lastResetDate, t, off)

NoTimers == [q \in MainQuestIds |-> 0]
NoneCompleted == [q \in MainQuestIds |-> FALSE]
FirstDay == {t \in Instants : t < 2 * 24}

\* a fresh install: the first mount over an empty storage
Init ==
    /\ localUp = TRUE /\ sessUp = TRUE /\ got = {} /\ shown = {}
    /\ now \in FirstDay
    /\ hostOffset \in HostOffsets
    /\ userProfile = MountState(EmptyStore, now, hostOffset).userProfile
    /\ selectedCharacter = MountState(EmptyStore, now, hostOffset).selectedCharacter
    /\ dailyQuests = MountState(EmptyStore, now, hostOffset).dailyQuests
    /\ mainQuests = MountState(EmptyStore, now, hostOffset).mainQuests
    /\ completedQuests = MountState(EmptyStore, now, hostOffset).completedQuests
    /\ lastResetDate = MountState(EmptyStore, now, hostOffset).lastResetDate
    /\ notifications = MountState(EmptyStore, now, hostOffset).notifications
    /\ store = MountStore(EmptyStore)
    /\ depsChanged = MountDepsChanged(EmptyStore, now, hostOffset)
    /\ pendingBonus = NoTimers
    /\ pc = "mounting"
    /\ restarts = 0 /\ resets = 0
    /\ bonusAwards = NoTimers /\ stalePending = NoTimers
    /\ completedHere = NoneCompleted /\ schedResets = 0
    /\ cycleAwards = NoAwards
    /\ doneEarlier = NoneEarlier /\ overdue = FALSE /\ relaunch = NoRelaunch

\* The process stops (at any moment) and is started again at time t.
Restart(t) ==
    /\ restarts < MaxRestarts
    /\ t >= now
    /\ SetLive(MountState(store, t, hostOffset))
    /\ store' = MountStore(store)
    /\ depsChanged' = MountDepsChanged(store, t, hostOffset)
    /\ now' = t
    /\ pc' = IF loadBreaks(store) THEN "crashed" ELSE "mounting"
    /\ restarts' = restarts + 1
    /\ pendingBonus' = NoTimers
    /\ bonusAwards' = NoTimers /\ stalePending' = NoTimers
    /\ completedHere' = NoneCompleted
    /\ relaunch' =
          IF /\ HasStored
             /\ StoredData.lastResetDate # NoDate
             /\ StoredData.lastResetDate < getCurrentDateString(t, hostOffset)
             /\ CutoverCrossed(now, t)
          THEN [stale |-> TRUE,
                checked |-> getHours(t) >= CUTOVER_HOUR,
                resets |-> IF shouldResetDailyQuests(DefaultState.lastResetDate, t, hostOffset)
                           THEN 1 ELSE 0]
          ELSE NoRelaunch
    /\ UNCHANGED <<hostOffset, resets, schedResets>>
    /\ TrackAwards(now, t, {})
    /\ TrackDaily(TRUE)
    /\ UNCHANGED media

\* Second commit of a mount: the autosave effect sees the applied state and
\* the reset effect runs again because lastResetDate changed.
FinishMount ==
    /\ pc = "mounting"
    /\ LET st == IF shouldResetDailyQuests(lastResetDate, now, hostOffset)
                 THEN resetDailyQuests(LiveState, now, hostOffset)
                 ELSE LiveState
       IN  /\ SetLive(st)
           /\ store' = IF depsChanged \/ st # LiveState
                       THEN saveUserData(st, store) ELSE store
    /\ pc' = "running"
    /\ depsChanged' = FALSE
    /\ TrackCheck(TRUE, shouldResetDailyQuests(lastResetDate, now, hostOffset))
    /\ UNCHANGED <<pendingBonus, now, hostOffset, restarts, resets, hist>>
    /\ TrackDaily(TRUE)
    /\ UNCHANGED media

\* ------------------------------------------------------------ user actions
DailyAwardDue_again(quest, id, questId) == id = questId

\* quest.id === questId && !quest.completed
DailyAwardDue(quest, id, questId) == id = questId /\ ~quest.completed

handleQuestComplete(questId) ==
    /\ Running
    /\ dailyQuests' = [d \in DOMAIN dailyQuests |->
                          IF DailyAwardDue(dailyQuests[d], d, questId)
                          THEN [dailyQuests[d] EXCEPT !.completed = TRUE]
                          ELSE dailyQuests[d]]
    /\ LET awarded == {d \in DOMAIN dailyQuests : DailyAwardDue(dailyQuests[d], d, questId)}
       IN  userProfile' = IF awarded # {}
                          THEN [userProfile EXCEPT !.totalXP =
                                   @ + dailyQuests[CHOOSE d \in awarded : TRUE].xp]
                          ELSE userProfile
    /\ UNCHANGED <<selectedCharacter, mainQuests, completedQuests, lastResetDate,
                   notifications>>
    /\ Autosave
    /\ UNCHANGED <<pendingBonus, now, hostOffset, pc, depsChanged, restarts, resets,
                   bonusAwards, stalePending, completedHere, schedResets, relaunch>>
    /\ TrackAwards(now, now, {d \in DOMAIN dailyQuests :
                                  DailyAwardDue(dailyQuests[d], d, questId)})
    /\ TrackDaily(FALSE)
    /\ UNCHANGED media

toggleQuestStep(questId, stepId) ==
    /\ Running
    /\ IF questId \in DOMAIN mainQuests
       THEN LET quest == mainQuests[questId]
                updatedSteps == UpdatedSteps(quest, stepId)
                progress == MathRoundPercent(CompletedCount(updatedSteps),
                                             Cardinality(DOMAIN quest.steps))
                award == StepAwardDue(quest, stepId)
                bonus == award /\ BonusDue(quest, updatedSteps, questId, completedQuests)
            IN  /\ mainQuests' = [mainQuests EXCEPT ![questId] =
                                     [quest EXCEPT !.steps = updatedSteps,
                                                   !.progress = progress]]
                /\ userProfile' = IF award
                                  THEN [userProfile EXCEPT !.totalXP = @ + stepXP]
                                  ELSE userProfile
                /\ completedQuests' = IF bonus THEN completedQuests \cup {questId}
                                      ELSE completedQuests
                /\ pendingBonus' = IF bonus THEN [pendingBonus EXCEPT ![questId] = @ + 1]
                                   ELSE pendingBonus
                /\ completedHere' = IF award /\ CompletedCount(updatedSteps) = NumSteps
                                    THEN [completedHere EXCEPT ![questId] = TRUE]
                                    ELSE completedHere
       ELSE UNCHANGED <<mainQuests, userProfile, completedQuests, pendingBonus, completedHere>>
    /\ UNCHANGED <<selectedCharacter, dailyQuests, lastResetDate, notifications>>
    /\ Autosave
    /\ UNCHANGED <<now, hostOffset, pc, depsChanged, restarts, resets,
                   bonusAwards, stalePending, schedResets, cycleAwards, doneEarlier, overdue,
                   relaunch>>
    /\ UNCHANGED media

\* the setTimeout callback armed by toggleQuestStep; fromBefore: the timer was
\* armed before the last reset of the main quests
BonusTimer(questId, fromBefore) ==
    /\ Running
    /\ IF fromBefore THEN stalePending[questId] > 0
       ELSE pendingBonus[questId] > stalePending[questId]
    /\ userProfile' = [userProfile EXCEPT !.totalXP = @ + questBonus(DefaultMainQuests[questId])]
    /\ pendingBonus' = [pendingBonus EXCEPT ![questId] = @ - 1]
    /\ stalePending' = IF fromBefore THEN [stalePending EXCEPT ![questId] = @ - 1]
                       ELSE stalePending
    /\ bonusAwards' = IF fromBefore THEN bonusAwards
                      ELSE [bonusAwards EXCEPT ![questId] = @ + 1]
    /\ UNCHANGED <<selectedCharacter, dailyQuests, mainQuests, completedQuests, lastResetDate,
                   notifications>>
    /\ Autosave
    /\ UNCHANGED <<now, hostOffset, pc, depsChanged, restarts, resets,
                   completedHere, schedResets, cycleAwards, doneEarlier, overdue, relaunch>>
    /\ UNCHANGED media

\* prev.map(quest => ({...quest, progress: 0, steps: quest.steps.map(...completed: false)}))
ResetQuests(quests) ==
    [q \in DOMAIN quests |->
        [quests[q] EXCEPT !.progress = 0,
                          !.steps = [s \in DOMAIN quests[q].steps |-> FALSE]]]

ResetLedger_kept(ledger) == ledger

\* setCompletedQuests(new Set())
ResetLedger(ledger) == {}

resetAllQuests ==
    /\ Running
    /\ resets < MaxResets
    /\ mainQuests' = ResetQuests(mainQuests)
    /\ completedQuests' = ResetLedger(completedQuests)
    /\ resets' = resets + 1
    /\ stalePending' = pendingBonus
    /\ bonusAwards' = NoTimers
    /\ completedHere' = NoneCompleted
    /\ UNCHANGED <<userProfile, selectedCharacter, dailyQuests, lastResetDate, notifications>>
    /\ Autosave
    /\ UNCHANGED <<pendingBonus, now, hostOffset, pc, depsChanged, restarts, schedResets,
                   cycleAwards, doneEarlier, overdue, relaunch>>
    /\ UNCHANGED media

handleCharacterSelect(emoji) ==
    /\ Running
    /\ selectedCharacter' = emoji
    /\ userProfile' = [userProfile EXCEPT !.avatar = emoji]
    /\ UNCHANGED <<dailyQuests, mainQuests, completedQuests, lastResetDate, notifications>>
    /\ Autosave
    /\ UNCHANGED <<pendingBonus, now, hostOffset, pc, depsChanged, restarts, resets, hist,
                   doneEarlier, overdue, relaunch>>
    /\ UNCHANGED media

\* settings screen: the switch "push notifications" is flipped to value
setNotifications(value) ==
    /\ Running
    /\ value # notifications
    /\ notifications' = value
    /\ UNCHANGED <<userProfile, selectedCharacter, dailyQuests, mainQuests, completedQuests,
                   lastResetDate>>
    /\ Autosave
    /\ UNCHANGED <<pendingBonus, now, hostOffset, pc, depsChanged, restarts, resets, hist,
                   doneEarlier, overdue, relaunch>>
    /\ UNCHANGED media

\* settings screen: "save progress"
ManualSave ==
    /\ Running
    /\ store' = saveUserData(LiveState, store)
    /\ UNCHANGED <<live, pendingBonus, now, hostOffset, pc, depsChanged, restarts, resets, hist,
                   doneEarlier, overdue, relaunch>>
    /\ UNCHANGED media

\* settings screen: "load progress"; the reset effect runs again when the
\* load changed lastResetDate, the autosave effect after the commit of what
\* the load applied; a render that throws commits nothing
LoadPressed ==
    /\ Running
    /\ LET loaded == loadUserData(LiveState, store)
           st == IF loaded.lastResetDate # lastResetDate
                    /\ shouldResetDailyQuests(loaded.lastResetDate, now, hostOffset)
                 THEN resetDailyQuests(loaded, now, hostOffset)
                 ELSE loaded
       IN  IF loadBreaks(store)
           THEN pc' = "crashed" /\ UNCHANGED <<live, store>>
           ELSE /\ SetLive(st)
                /\ store' = IF AcceptedData(store) # {}
                            THEN saveUserData(st, store) ELSE store
                /\ pc' = pc
    /\ LET loaded == loadUserData(LiveState, store)
       IN  TrackCheck(loaded.lastResetDate # lastResetDate,
                      /\ loaded.lastResetDate # lastResetDate
                      /\ shouldResetDailyQuests(loaded.lastResetDate, now, hostOffset))
    /\ UNCHANGED <<pendingBonus, now, hostOffset, depsChanged, restarts, resets, hist>>
    /\ TrackDaily(loadUserData(LiveState, store).lastResetDate # lastResetDate)
    /\ UNCHANGED <<localUp, sessUp, shown>>

ManualLoad == LoadPressed /\ UNCHANGED got

\* the same handler, with its Storage.getItem call observed
ObservedLoad ==
    /\ LoadPressed
    /\ got' = {[at |-> store, localOK |-> localUp, sessOK |-> sessUp,
                 data |-> Storage_getItem(store, localUp, sessUp)]}

\* ------------------------------------------------------------------ render
\* the profile header is rendered: level and progress bar of the total
Render ==
    /\ Running
    /\ shown' = {[xp |-> userProfile.totalXP,
                  level |-> getLevel(userProfile.totalXP),
                  progress |-> getLevelProgress(userProfile.totalXP),
                  xpIn |-> getXPInCurrentLevel(userProfile.totalXP),
                  xpNeeded |-> getXPNeededForCurrentLevel(userProfile.totalXP),
                  xpToNext |-> getXPToNextLevel(userProfile.totalXP),
                  reward |-> getLevelRewards(getLevel(userProfile.totalXP))]}
    /\ UNCHANGED <<live, pendingBonus, store, now, hostOffset, pc, depsChanged,
                   restarts, resets, hist, doneEarlier, overdue, relaunch,
                   localUp, sessUp, got>>

\* ------------------------------------------------------------ environment
\* a storage medium starts or stops throwing (private mode, quota, policy)
MediumFault(l, s) ==
    /\ Running
    /\ <<l, s>> # <<localUp, sessUp>>
    /\ localUp' = l /\ sessUp' = s
    /\ UNCHANGED <<live, pendingBonus, store, now, hostOffset, pc, depsChanged,
                   restarts, resets, hist, doneEarlier, overdue, relaunch, got, shown>>

\* the primary copy is written or removed from outside the component
\* (site data cleared, an earlier version, another script, an imported text)
ExternalWrite(slot) ==
    /\ Running
    /\ store' = [store EXCEPT !.local = slot]
    /\ UNCHANGED <<live, pendingBonus, now, hostOffset, pc, depsChanged,
                   restarts, resets, hist, doneEarlier, overdue, relaunch, media>>

\* --------------------------------------------------------------- scheduler
\* one firing of the setInterval callback of the reset effect
SchedulerCheck ==
    /\ Running
    /\ IF shouldResetDailyQuests(lastResetDate, now, hostOffset)
       THEN /\ SetLive(resetDailyQuests(LiveState, now, hostOffset))
            /\ Autosave
            /\ schedResets' = schedResets + 1
       ELSE UNCHANGED <<live, store, schedResets>>
    /\ UNCHANGED <<pendingBonus, now, hostOffset, pc, depsChanged, restarts, resets,
                   bonusAwards, stalePending, completedHere, cycleAwards>>
    /\ TrackCheck(TRUE, shouldResetDailyQuests(lastResetDate, now, hostOffset))
    /\ TrackDaily(TRUE)
    /\ UNCHANGED media

\* the wall clock advances
Tick(t) ==
    /\ Running
    /\ t > now
    /\ now' = t
    /\ relaunch' = IF getCurrentDateString(t, hostOffset) > getCurrentDateString(now, hostOffset)
                   THEN NoRelaunch ELSE relaunch
    /\ UNCHANGED <<live, pendingBonus, store, hostOffset, pc, depsChanged,
                   restarts, resets, bonusAwards, stalePending, completedHere, schedResets>>
    /\ TrackAwards(now, t, {})
    /\ TrackDaily(FALSE)
    /\ UNCHANGED media

Next ==
    \/ \E t \in Instants : Restart(t)
    \/ FinishMount
    \/ \E d \in DailyArgs : handleQuestComplete(d)
    \/ \E q \in MainQuestIds \cup {UnknownQuest}, s \in StepArgs : toggleQuestStep(q, s)
    \/ \E q \in MainQuestIds, b \in BOOLEAN : BonusTimer(q, b)
    \/ resetAllQuests
    \/ \E c \in Characters : handleCharacterSelect(c)
    \/ \E value \in BOOLEAN : setNotifications(value)
    \/ ManualSave
    \/ ManualLoad
    \/ SchedulerCheck
    \/ \E t \in Instants : Tick(t)

Spec == Init /\ [][Next]_vars

\* One process lifetime: everything but a restart.
NextLifetime ==
    \/ FinishMount
    \/ \E d \in DailyArgs : handleQuestComplete(d)
    \/ \E q \in MainQuestIds \cup {UnknownQuest}, s \in StepArgs : toggleQuestStep(q, s)
    \/ \E q \in MainQuestIds, b \in BOOLEAN : BonusTimer(q, b)
    \/ resetAllQuests
    \/ \E c \in Characters : handleCharacterSelect(c)
    \/ ManualSave
    \/ ManualLoad
    \/ SchedulerCheck
    \/ \E t \in Instants : Tick(t)

\* (the quests, the ledger and the store do not depend on the host's zone:
\* the lifetime is followed on a host at UTC)
InitLifetime == Init /\ hostOffset = 0

SpecLifetime == InitLifetime /\ [][NextLifetime]_vars

\* The main quests across restarts; the clock stands still.
NextQuests ==
    \/ Restart(now)
    \/ FinishMount
    \/ \E q \in MainQuestIds \cup {UnknownQuest}, s \in StepArgs : toggleQuestStep(q, s)
    \/ \E q \in MainQuestIds, b \in BOOLEAN : BonusTimer(q, b)
    \/ resetAllQuests
    \/ ManualSave
    \/ ManualLoad

SpecQuests == Init /\ [][NextQuests]_vars

\* The level display over restored profiles of every experience total.
InitLevels ==
    /\ localUp = TRUE /\ sessUp = TRUE /\ got = {} /\ shown = {}
    /\ now \in FirstDay
    /\ hostOffset = 0
    /\ \E xp \in XPInputs :
         LET st == [DefaultState EXCEPT !.userProfile.totalXP = xp,
                                        !.lastResetDate = getCurrentDateString(now, hostOffset)]
         IN  /\ userProfile = st.userProfile
             /\ selectedCharacter = st.selectedCharacter
             /\ dailyQuests = st.dailyQuests
             /\ mainQuests = st.mainQuests
             /\ completedQuests = st.completedQuests
             /\ lastResetDate = st.lastResetDate
             /\ notifications = st.notifications
             /\ store = saveUserData(st, EmptyStore)
    /\ depsChanged = FALSE
    /\ pendingBonus = NoTimers
    /\ pc = "running"
    /\ restarts = 0 /\ resets = 0
    /\ bonusAwards = NoTimers /\ stalePending = NoTimers
    /\ completedHere = NoneCompleted /\ schedResets = 0
    /\ cycleAwards = NoAwards
    /\ doneEarlier = NoneEarlier /\ overdue = FALSE /\ relaunch = NoRelaunch

NextLevels ==
    \/ \E d \in DailyIds : handleQuestComplete(d)
    \/ Render

SpecLevels == InitLevels /\ [][NextLevels]_vars

\* The durable store under failing media and foreign texts.
NextStore ==
    \/ FinishMount
    \/ ManualSave
    \/ ObservedLoad
    \/ \E l, s \in BOOLEAN : MediumFault(l, s)
    \/ \E slot \in {{}} \cup {{text} : text \in ExternalTexts} : ExternalWrite(slot)

SpecStore == Init /\ [][NextStore]_vars

\* Restoring snapshots of this and of other origin into a live state that
\* has moved away from the defaults.
NextRestore ==
    \/ FinishMount
    \/ \E c \in Characters : handleCharacterSelect(c)
    \/ \E value \in BOOLEAN : setNotifications(value)
    \/ ManualLoad
    \/ \E text \in ValidTexts : ExternalWrite({text})

SpecRestore == InitLifetime /\ [][NextRestore]_vars

\* The daily quests and the scheduler across restarts and days.
NextDaily ==
    \/ \E t \in Instants : Restart(t)
    \/ FinishMount
    \/ \E d \in DailyArgs : handleQuestComplete(d)
    \/ ManualSave
    \/ ManualLoad
    \/ SchedulerCheck
    \/ \E t \in Instants : Tick(t)

SpecDaily == Init /\ [][NextDaily]_vars

\* ================================================================== claims
TotalXP == userProfile.totalXP
FreshPending(q) == pendingBonus[q] - stalePending[q]
AllDone(quest) == \A s \in DOMAIN quest.steps : quest.steps[s]

\* p is 100 * c / n rounded to the nearest integer, halves upwards
IsRounded(p, c, n) == 2 * n * p <= 200 * c + n /\ 200 * c + n < 2 * n * (p + 1)

\* C1: within a process, the completion bonus of a main quest is credited (or
\* its timer is armed) exactly once when the last open step has been toggled
\* since the last reset, and never otherwise; each credit adds quest.xp.
C1_BonusExactlyOnce ==
    /\ [](\A q \in MainQuestIds :
            /\ bonusAwards[q] \in {0, 1}
            /\ bonusAwards[q] + FreshPending(q) = IF completedHere[q] THEN 1 ELSE 0)
    /\ [][\A q \in MainQuestIds :
            bonusAwards'[q] > bonusAwards[q] =>
                /\ bonusAwards'[q] = bonusAwards[q] + 1
                /\ TotalXP' = TotalXP + QuestXP[q]]_vars

C1_Witness ==
    \E q \in MainQuestIds :
        /\ completedHere[q] /\ AllDone(mainQuests[q])
        /\ bonusAwards[q] = 1 /\ pendingBonus[q] = 0
        /\ restarts > 0

\* C2: toggleStep on an unknown quest, an unknown step or a completed step
\* changes neither totalXP nor any step, progress or the ledger.
C2_NoOpToggle ==
    [][\A q \in MainQuestIds \cup {UnknownQuest}, s \in StepArgs :
        (/\ toggleQuestStep(q, s)
         /\ \/ q \notin MainQuestIds
            \/ s \notin StepIds
            \/ mainQuests[q].steps[s])
        => /\ TotalXP' = TotalXP
           /\ mainQuests' = mainQuests
           /\ completedQuests' = completedQuests]_vars

\* C3: a successful toggleStep completes exactly that step, leaves the other
\* steps and quests alone, stores the rounded percentage as progress, adds 30
\* XP, and arms the bonus timer exactly when it was the last open step.
RoundingTable ==
    /\ \A n \in 1..20 : \A c \in 0..n : IsRounded(MathRoundPercent(c, n), c, n)
    /\ MathRoundPercent(0, 20) = 0 /\ MathRoundPercent(1, 20) = 5

C3_SuccessfulToggle ==
    [][\A q \in MainQuestIds, s \in StepIds :
        (toggleQuestStep(q, s) /\ ~mainQuests[q].steps[s])
        => /\ mainQuests'[q].steps = [mainQuests[q].steps EXCEPT ![s] = TRUE]
           /\ \A r \in MainQuestIds \ {q} : mainQuests'[r] = mainQuests[r]
           /\ mainQuests'[q].xp = mainQuests[q].xp
           /\ IsRounded(mainQuests'[q].progress,
                        CompletedCount(mainQuests[q].steps) + 1, NumSteps)
           /\ RoundingTable
           /\ TotalXP' = TotalXP + 30
           /\ pendingBonus'[q] = pendingBonus[q] +
                 (IF CompletedCount(mainQuests[q].steps) = NumSteps - 1 THEN 1 ELSE 0)
           /\ \A r \in MainQuestIds \ {q} : pendingBonus'[r] = pendingBonus[r]
           /\ dailyQuests' = dailyQuests]_vars

C3_Witness ==
    /\ Running
    /\ \E q \in MainQuestIds :
          /\ CompletedCount(mainQuests[q].steps) = 1
          /\ IsRounded(mainQuests[q].progress, 1, NumSteps)
          /\ mainQuests[q].progress > 0
          /\ q \notin completedQuests
    /\ TotalXP = 30

\* C4: completeDailyQuest on a completed or unknown quest changes nothing; on
\* an open quest it completes that quest only and adds its xp once.
C4_CompleteDaily ==
    [][\A id \in DailyArgs :
        handleQuestComplete(id) =>
            /\ IF id \in DailyIds /\ ~dailyQuests[id].completed
               THEN /\ dailyQuests' = [dailyQuests EXCEPT ![id].completed = TRUE]
                    /\ TotalXP' = TotalXP + DailyXP[id]
               ELSE /\ dailyQuests' = dailyQuests
                    /\ TotalXP' = TotalXP
            /\ UNCHANGED <<mainQuests, completedQuests, lastResetDate, selectedCharacter>>
            /\ userProfile'.avatar = userProfile.avatar]_vars

C4_Witness ==
    /\ Running
    /\ dailyQuests[1].completed /\ ~dailyQuests[2].completed
    /\ TotalXP = DailyXP[1]

\* C5: a step changes totalXP only by completing an open daily quest (+ its
\* xp), completing an open step (+30) or crediting a completion bonus
\* (+ quest.xp); resets, scheduler checks, character selection and saves
\* leave totalXP unchanged.
XPByDaily ==
    \E d \in DailyIds :
        /\ ~dailyQuests[d].completed /\ dailyQuests'[d].completed
        /\ TotalXP' = TotalXP + DailyXP[d]

XPByStep ==
    \E q \in MainQuestIds, s \in StepIds :
        /\ ~mainQuests[q].steps[s] /\ mainQuests'[q].steps[s]
        /\ TotalXP' = TotalXP + 30

XPByBonus ==
    \E q \in MainQuestIds :
        /\ pendingBonus[q] > 0 /\ pendingBonus'[q] = pendingBonus[q] - 1
        /\ TotalXP' = TotalXP + QuestXP[q]

C5_XPSources ==
    /\ [][TotalXP' # TotalXP => (XPByDaily \/ XPByStep \/ XPByBonus)]_vars
    /\ [][(\/ resetAllQuests
           \/ SchedulerCheck
           \/ \E c \in Characters : handleCharacterSelect(c)
           \/ ManualSave
           \/ \E d \in DailyIds : dailyQuests[d].completed /\ ~dailyQuests'[d].completed)
          => TotalXP' = TotalXP]_vars

C5_Witness ==
    /\ schedResets > 0 /\ resets > 0
    /\ TotalXP >= DailyXP[2] + 30 + QuestXP["career-1"]
    /\ selectedCharacter = "devil"

\* C6: totalXP never decreases, neither inside a process nor across a
\* restart with restore.
C6_XPMonotonic == [][TotalXP' >= TotalXP]_vars

\* C7: resetAllMainQuests leaves, live and persisted, every progress at 0,
\* every step open and the ledger empty; live and persisted, a quest is in
\* the ledger exactly when all of its steps are completed.
LedgerMatchesSteps(quests, ledger) ==
    \A q \in MainQuestIds : q \in ledger <=> AllDone(quests[q])

AllReset(quests, ledger) ==
    /\ \A q \in MainQuestIds :
          /\ quests[q].progress = 0
          /\ \A s \in StepIds : ~quests[q].steps[s]
    /\ ledger = {}

C7_ResetAtomic ==
    /\ [][resetAllQuests =>
            /\ AllReset(mainQuests', completedQuests')
            /\ HasStored'
            /\ AllReset(StoredData'.mainQuests, SeqToSet(StoredData'.completedQuests))]_vars
    /\ [](/\ LedgerMatchesSteps(mainQuests, completedQuests)
          /\ HasStored => LedgerMatchesSteps(StoredData.mainQuests,
                                             SeqToSet(StoredData.completedQuests)))

C7_Witness ==
    /\ resets > 0
    /\ AllReset(mainQuests, completedQuests)
    /\ TotalXP >= NumSteps * 30
    /\ \E q \in MainQuestIds : pendingBonus[q] > 0

\* C8: a completed daily quest becomes open again only in a step taken at or
\* after the cutover hour on a date key that differs from the last reset date
\* (live or persisted); user actions, saves, restarts and restores keep it.
C8_DailyReopensOnlyAtCutover ==
    [][\A d \in DailyIds :
        (dailyQuests[d].completed /\ ~dailyQuests'[d].completed)
        => /\ getHours(now') >= 4
           /\ \/ getCurrentDateString(now', hostOffset) # lastResetDate
              \/ HasStored /\ getCurrentDateString(now', hostOffset) # StoredData.lastResetDate]_vars

\* C9: isResetDue is true exactly when the date key differs from
\* lastResetDate and the hour is at least 4.
DateKeys == {NoDate} \cup 0..(MaxDay + 1)

C9_IsResetDue ==
    LET key == getCurrentDateString(now, hostOffset)
        hour == now % 24
    IN  \A last \in DateKeys :
          /\ shouldResetDailyQuests(last, now, hostOffset) <=> (key # last /\ hour >= 4)
          /\ (last < key /\ hour >= 4) => shouldResetDailyQuests(last, now, hostOffset)
          /\ (last < key /\ hour < 4) => ~shouldResetDailyQuests(last, now, hostOffset)
          /\ last = key => ~shouldResetDailyQuests(last, now, hostOffset)

C9_Witness ==
    /\ Running
    /\ lastResetDate # NoDate
    /\ lastResetDate < getCurrentDateString(now, hostOffset)
    /\ now % 24 = 4
    /\ shouldResetDailyQuests(lastResetDate, now, hostOffset)

\* C10: a scheduler check that finds the reset due opens every daily quest
\* and sets lastResetDate to the current date key; a check on the date key of
\* lastResetDate changes neither, so a second check in a row changes nothing.
C10_CheckIdempotent ==
    [][SchedulerCheck =>
        LET key == getCurrentDateString(now, hostOffset)
        IN  /\ IF key # lastResetDate /\ now % 24 >= 4
               THEN /\ \A d \in DailyIds : ~dailyQuests'[d].completed
                    /\ lastResetDate' = key
               ELSE UNCHANGED <<dailyQuests, lastResetDate>>
            /\ key = lastResetDate => UNCHANGED <<dailyQuests, lastResetDate>>
            /\ ~shouldResetDailyQuests(lastResetDate', now', hostOffset)]_vars

C10_Witness ==
    /\ Running
    /\ schedResets > 0
    /\ lastResetDate = getCurrentDateString(now, hostOffset)
    /\ \E d \in DailyIds : dailyQuests[d].completed


\* C11: after a start past one or more cutover boundaries over a stored
\* lastResetDate of an earlier date key, once a check has run at an hour >= 4
\* exactly one daily reset has been performed and lastResetDate is the
\* current date key.
C11_RelaunchResetsOnce ==
    (relaunch.stale /\ relaunch.checked) =>
        /\ relaunch.resets = 1
        /\ lastResetDate = getCurrentDateString(now, hostOffset)

\* C12: once a check has run at an hour >= 4, no daily quest that was
\* completed on an earlier date is still completed (also after a start on the
\* new date before 04:00 over a stored lastResetDate of an earlier date).
C12_TurnoverReopensAll == ~overdue

\* C13: at every instant, the date key and the reset decision computed on this
\* host equal those computed on any host of another UTC offset, for every
\* lastResetDate.
C13_HostIndependent ==
    \A o \in HostOffsets, last \in DateKeys :
        /\ getCurrentDateString(now, hostOffset) = getCurrentDateString(now, o)
        /\ shouldResetDailyQuests(last, now, hostOffset) = shouldResetDailyQuests(last, now, o)

\* C14: with both media working, an observed Storage.getItem call returned the
\* primary copy when there was one, else the live copy of the secondary
\* medium, else its backup copy, and nothing only when all three were absent.
C14_LookupOrder ==
    \A g \in got :
        (g.localOK /\ g.sessOK) =>
            /\ g.at.local # {} => g.data = g.at.local
            /\ (g.at.local = {} /\ g.at.sess # {}) => g.data = g.at.sess
            /\ (g.at.local = {} /\ g.at.sess = {} /\ g.at.backup # {}) => g.data = g.at.backup
            /\ g.data = {} <=> (g.at.local = {} /\ g.at.sess = {} /\ g.at.backup = {})

\* a read that fell back to the live copy of the secondary medium while a
\* different backup copy was there
C14_Witness ==
    \E g \in got :
        /\ g.localOK /\ g.sessOK
        /\ g.at.local = {} /\ g.at.sess # {} /\ g.at.backup # {}
        /\ g.at.sess # g.at.backup
        /\ g.data = g.at.sess

\* C15: an observed Storage.getItem call returned the first copy present on
\* a working medium (primary, secondary live, secondary backup), whichever
\* medium was throwing; and a save writes the primary copy when the primary
\* medium works and the secondary live copy when only the secondary works.
C15_FallbackUnderFailure ==
    /\ [](\A g \in got :
            LET l == IF g.localOK THEN g.at.local ELSE {}
                s == IF g.sessOK THEN g.at.sess ELSE {}
                b == IF g.sessOK THEN g.at.backup ELSE {}
            IN  g.data = IF l # {} THEN l ELSE IF s # {} THEN s ELSE b)
    /\ [][ManualSave =>
            LET text == JSON_stringify(UserData(LiveState))
            IN  /\ localUp => store'.local = {text}
                /\ (~localUp /\ sessUp) => store'.sess = {text}]_vars

\* an object with a profile object of numeric totalXP, a daily-quest
\* collection and a main-quest collection
WellShaped(data) ==
    /\ data.t = "object"
    /\ HasField(data, "userProfile") /\ data.v.userProfile.t = "object"
    /\ HasField(data.v.userProfile, "totalXP")
    /\ data.v.userProfile.v.totalXP.t = "number"
    /\ HasField(data, "dailyQuests") /\ data.v.dailyQuests.t = "array"
    /\ HasField(data, "mainQuests") /\ data.v.mainQuests.t = "array"

\* C16: the validation of every parsed text that an observed load read
\* succeeded exactly when the value was a well-shaped aggregate.
C16_ValidateShape ==
    \A g \in got : \A text \in g.data : \A data \in JSON_parse(text) :
        validateUserData(data) <=> WellShaped(data)

\* the text that Storage.getItem finds does not parse or fails the validation
Rejected ==
    LET savedData == Storage_getItem(store, localUp, sessUp)
    IN  /\ savedData # {}
        /\ \A text \in savedData : \A data \in JSON_parse(text) : ~validateUserData(data)

\* C17: a load that finds a text which does not parse or fails the validation
\* leaves every field of the live state as it was, and the component goes on.
C17_RejectedLoadAppliesNothing ==
    [][(ObservedLoad /\ Rejected) => UNCHANGED <<live, pc>>]_vars

\* a load has read the text that misses the main-quest key and the live
\* state is not that of the text
C17_Witness ==
    /\ pc = "running"
    /\ userProfile.totalXP # ImportedData.v.userProfile.v.totalXP.v
    /\ \E g \in got : g.data = {JSON_stringify(Without(ImportedData, "mainQuests"))}

\* what loadUserData makes of the text of saveUserData for the state st,
\* starting from the default state
RoundTrip(st) ==
    loadUserData(DefaultState,
                 Storage_setItem(EmptyStore, JSON_stringify(UserData(st)), TRUE, TRUE))

\* C18: the aggregate of every reachable live state passes the validation,
\* and restoring its saved text into the default state gives the same
\* totalXP, the same main quests (progress and step flags) and the same
\* ledger of completed quests.
C18_RoundTripLaw ==
    /\ validateUserData(UserData(LiveState))
    /\ RoundTrip(LiveState).userProfile.totalXP = userProfile.totalXP
    /\ \A q \in MainQuestIds :
          /\ RoundTrip(LiveState).mainQuests[q].progress = mainQuests[q].progress
          /\ RoundTrip(LiveState).mainQuests[q].steps = mainQuests[q].steps
    /\ RoundTrip(LiveState).completedQuests = completedQuests

\* a saved state with experience, every main quest in the ledger and a
\* daily quest done
C18_Witness ==
    /\ userProfile.totalXP > 0
    /\ completedQuests = MainQuestIds
    /\ \E d \in DailyIds : dailyQuests[d].completed
    /\ HasStored /\ store.local = {JSON_stringify(UserData(LiveState))}

\* cumulative cost of the first i levels, and the level of every input
CumTable == [i \in 0..Len(levelTable) |-> SumBelow(i)]
LevelOf == [x \in XPInputs |-> getLevel(x)]

\* C19: the level shown for a total xp >= 0 is i+1 for the first index i whose
\* cumulative cost exceeds xp, and 100 when there is none; it lies in 1..100,
\* does not decrease with xp, and is 1 at 0 and cost[0]-1 and 2 at cost[0].
C19_LevelDefinition ==
    \A s \in shown :
        /\ s.level \in 1..100
        /\ IF \E i \in 1..Len(levelTable) : CumTable[i] > s.xp
           THEN /\ CumTable[s.level] > s.xp
                /\ \A j \in 1..(s.level - 1) : CumTable[j] <= s.xp
           ELSE s.level = 100
        /\ \A x \in XPInputs :
              /\ x <= s.xp => LevelOf[x] <= s.level
              /\ x >= s.xp => LevelOf[x] >= s.level
        /\ s.xp \in {0, levelTable[1] - 1} => s.level = 1
        /\ s.xp = levelTable[1] => s.level = 2

\* the total that just reaches the cost of level 1 was shown as level 2
C19_Witness ==
    \E s \in shown : s.xp = levelTable[1] /\ s.level = 2

\* C20: the progress shown for a total is between 0 and 100; it is 100 when
\* the level is 100 and otherwise 100 * (xp - cost of the levels below the
\* current one) / cost of the current level; it is 50 in the middle of level 1.
C20_ProgressPercent ==
    \A s \in shown :
        /\ s.progress.num >= 0
        /\ s.progress.num <= 100 * s.progress.den
        /\ IF s.level >= 100
           THEN s.progress = [num |-> 100, den |-> 1]
           ELSE s.progress = Ratio(100 * (s.xp - CumTable[s.level - 1]), levelTable[s.level])
        /\ s.xp = levelTable[1] \div 2 => s.progress = [num |-> 50, den |-> 1]

\* the middle of level 1 was shown as 50 percent
C20_Witness ==
    \E s \in shown :
        /\ s.xp = levelTable[1] \div 2
        /\ s.level = 1
        /\ s.progress = [num |-> 50, den |-> 1]

\* C21: below level 100 the shown experience within the level is at least 0
\* and less than the experience the level needs, and the shown experience to
\* the next level is their difference, which is positive; at level 100 it is
\* 0; it is never negative.
C21_XPWithinLevel ==
    \A s \in shown :
        /\ s.level < 100 =>
              /\ 0 <= s.xpIn /\ s.xpIn < s.xpNeeded
              /\ s.xpToNext = s.xpNeeded - s.xpIn
              /\ s.xpToNext > 0
        /\ s.level >= 100 => s.xpToNext = 0
        /\ s.xpToNext >= 0

\* the levels the reward function is asked for, past both ends of the scale
LevelInputs == (0 - Len(levelTable))..(2 * Len(levelTable))
Milestones == (1..10) \cup {15, 20, 25, 30, 40, 50, 60, 70, 80, 90, 100}
RewardOf == [l \in LevelInputs |-> getLevelRewards(l)]

\* C22: the reward shown for a level is that of the greatest milestone not
\* above the level, and for every level below 1 that of level 1.
C22_RewardMilestone ==
    /\ \A s \in shown :
          /\ s.reward \in Milestones /\ s.reward <= s.level
          /\ \A m \in Milestones : m <= s.level => m <= s.reward
    /\ shown # {} =>
          \A l \in LevelInputs :
              /\ l < 1 => RewardOf[l] = 1
              /\ l >= 1 => /\ RewardOf[l] \in Milestones /\ RewardOf[l] <= l
                           /\ \A m \in Milestones : m <= l => m <= RewardOf[l]

\* a level strictly between two milestones was shown with the lower one
C22_Witness ==
    \E s \in shown : s.reward < s.level /\ s.level < 100 /\ s.reward >= 15

\* C23: for every main quest the number of completed steps lies between 0
\* and the number of steps, and the stored progress is the rounded percentage
\* of completed steps.
C23_ProgressMatchesSteps ==
    \A q \in MainQuestIds :
        /\ CompletedCount(mainQuests[q].steps) \in 0..Cardinality(DOMAIN mainQuests[q].steps)
        /\ IsRounded(mainQuests[q].progress, CompletedCount(mainQuests[q].steps),
                     Cardinality(DOMAIN mainQuests[q].steps))

RECURSIVE BonusSum(_)
\* the completion bonuses of the quests of a ledger
BonusSum(ledger) ==
    IF ledger = {} THEN 0
    ELSE LET q == CHOOSE x \in ledger : TRUE
         IN  QuestXP[q] + BonusSum(ledger \ {q})

RECURSIVE StepSum(_, _)
\* the step rewards of the completed steps of the quests ids
StepSum(quests, ids) ==
    IF ids = {} THEN 0
    ELSE LET q == CHOOSE x \in ids : TRUE
         IN  stepXP * CompletedCount(quests[q].steps) + StepSum(quests, ids \ {q})

\* every quest of the ledger has all steps completed, and the total holds the
\* rewards of the completed steps and the bonuses of the ledger
LedgerCredited(xp, quests, ledger) ==
    /\ \A q \in ledger : AllDone(quests[q])
    /\ ledger # {} => xp >= StepSum(quests, MainQuestIds) + BonusSum(ledger)

\* C24: in the live state and in the stored snapshot, a quest is in the
\* ledger of completed quests only with all its steps completed and its
\* bonus contained in totalXP, also after a stop and a restart with restore.
C24_LedgerWithBonus ==
    /\ LedgerCredited(userProfile.totalXP, mainQuests, completedQuests)
    /\ HasStored => LedgerCredited(StoredData.userProfile.totalXP, StoredData.mainQuests,
                                   SeqToSet(StoredData.completedQuests))

\* C25: lastResetDate is never the current date key while a daily quest
\* completed before today's cutover is still completed, and a step that
\* re-opens a completed daily quest leaves lastResetDate at the current date
\* key.
C25_ResetDateWithFlags ==
    /\ [](~(/\ lastResetDate = getCurrentDateString(now, hostOffset)
            /\ getHours(now) >= CUTOVER_HOUR
            /\ \E d \in DailyIds : doneEarlier[d]))
    /\ [][(/\ pc' = "running"
           /\ \E d \in DailyIds : dailyQuests[d].completed /\ ~dailyQuests'[d].completed)
          => lastResetDate' = getCurrentDateString(now', hostOffset)]_vars

\* the aggregate that a load is about to apply, if any
Restorable == AcceptedData(store) # {} /\ ~loadBreaks(store)
Restored == CHOOSE userData \in AcceptedData(store) : TRUE

\* C27: a load that applies a validated aggregate leaves completedQuests,
\* lastResetDate and the notifications flag as they were when the aggregate
\* misses the field, restores a flag stored as false as false, and ends with
\* selectedCharacter equal to the avatar of the profile.
C27_RestoreFieldwise ==
    [][(LoadPressed /\ Restorable) =>
          /\ ~HasField(Restored, "completedQuests") => completedQuests' = completedQuests
          /\ ~HasField(Restored, "lastResetDate") => lastResetDate' = lastResetDate
          /\ ~HasField(Restored, "notifications") => notifications' = notifications
          /\ HasField(Restored, "notifications") =>
                 notifications' = Restored.v.notifications.v
          /\ selectedCharacter' = userProfile'.avatar]_vars

\* C26: whenever the component is mounted and no timer is armed, the stored
\* snapshot is the serialization of the live state, lastResetDate included.
C26_SnapshotIsLive ==
    (Running /\ pendingBonus = NoTimers) =>
        store.local = {JSON_stringify(UserData(LiveState))}

\* the progress that the stored snapshot holds
StoredProgress ==
    [totalXP |-> StoredData.userProfile.totalXP,
     steps |-> [q \in MainQuestIds |-> StoredData.mainQuests[q].steps],
     completedQuests |-> SeqToSet(StoredData.completedQuests)]

\* C28: the first commit of a start (load queued, autosave, first check)
\* leaves the totalXP, the step flags and the ledger of the stored snapshot
\* as the last save wrote them.
C28_StartKeepsSnapshot ==
    [][(\E t \in Instants : Restart(t)) => StoredProgress' = StoredProgress]_vars
\* C29: between two 04:00 boundaries of the Kyiv clock the xp of each daily
\* quest is added to totalXP at most once.
C29_OnceACycle == \A d \in DailyIds : cycleAwards[d] <= 1
\* C30: after a save that at least one medium accepted, Storage.getItem
\* under the same availability of the media returns the saved text.
C30_ReadYourWrites ==
    [][(ManualSave /\ validateUserData(UserData(LiveState)) /\ (localUp \/ sessUp)) =>
          Storage_getItem(store', localUp, sessUp) = {JSON_stringify(UserData(LiveState))}]_vars
====
